---- MODULE Spec2Model ----
(***************************************************************************)
(* Model of freelan's command-line entry point (cli.cpp) and its           *)
(* configuration helper (configuration_helper.cpp): option schema, the     *)
(* merge of command line / configuration file / defaults into the          *)
(* variables map, the choice of the configuration file, the assembly of    *)
(* fl::configuration, and main()'s engine life cycle.                      *)
(*                                                                         *)
(* Values that may be absent are boxed: <<>> is "no value", <<v>> is v.    *)
(***************************************************************************)
EXTENDS Integers, Sequences, FiniteSets, TLC

(***************************************************************************)
(* Bounds of the explored inputs.                                          *)
(***************************************************************************)
\* Longest token list given to a list-typed option by one source.
MaxTokens == 2

(***************************************************************************)
(* Exceptions.  what is the sequence of the message's parts.               *)
(***************************************************************************)
NoException == [type |-> "none", what |-> <<>>]

Throw(type, what) == [type |-> type, what |-> what]

(***************************************************************************)
(* The option schema.  A descriptor gives the value kind, the boxed        *)
(* default (<<>> when the option has none) and the required flag.          *)
(***************************************************************************)
Desc(kind, default, required) ==
    [kind |-> kind, default |-> default, required |-> required]

generic_options ==
    ("help" :> Desc("flag", <<>>, FALSE)) @@
    ("debug" :> Desc("flag", <<>>, FALSE)) @@
    ("configuration_file" :> Desc("string", <<>>, FALSE))

get_fscp_options ==
    ("fscp.hostname_resolution_protocol" :> Desc("string", <<"system_default">>, FALSE)) @@
    ("fscp.listen_on" :> Desc("string", <<"0.0.0.0:12000">>, FALSE)) @@
    ("fscp.hello_timeout" :> Desc("uint", <<3000>>, FALSE)) @@
    ("fscp.contact" :> Desc("list", << <<>> >>, FALSE))

get_security_options ==
    ("security.signature_certificate_file" :> Desc("string", <<>>, TRUE)) @@
    ("security.signature_private_key_file" :> Desc("string", <<>>, TRUE)) @@
    ("security.encryption_certificate_file" :> Desc("string", <<>>, FALSE)) @@
    ("security.encryption_private_key_file" :> Desc("string", <<>>, FALSE)) @@
    ("security.certificate_validation_method" :> Desc("string", <<"default">>, FALSE)) @@
    ("security.certificate_validation_script" :> Desc("string", <<>>, FALSE)) @@
    ("security.authority_certificate_file" :> Desc("list", << <<>> >>, FALSE))

get_tap_adapter_options ==
    ("tap_adapter.enabled" :> Desc("bool", <<TRUE>>, FALSE)) @@
    ("tap_adapter.ipv4_address_prefix_length" :> Desc("string", <<"9.0.0.1/24">>, FALSE)) @@
    ("tap_adapter.ipv6_address_prefix_length" :> Desc("string", <<"fe80::1/10">>, FALSE)) @@
    ("tap_adapter.arp_proxy_enabled" :> Desc("bool", <<FALSE>>, FALSE)) @@
    ("tap_adapter.arp_proxy_fake_ethernet_address" :> Desc("string", <<"00:aa:bb:cc:dd:ee">>, FALSE)) @@
    ("tap_adapter.dhcp_proxy_enabled" :> Desc("bool", <<TRUE>>, FALSE)) @@
    ("tap_adapter.dhcp_server_ipv4_address_prefix_length" :> Desc("string", <<"9.0.0.0/24">>, FALSE)) @@
    ("tap_adapter.dhcp_server_ipv6_address_prefix_length" :> Desc("string", <<"fe80::/10">>, FALSE))

get_switch_options ==
    ("switch.routing_method" :> Desc("string", <<"switch">>, FALSE)) @@
    ("switch.relay_mode_enabled" :> Desc("bool", <<FALSE>>, FALSE))

configuration_options ==
    get_fscp_options @@ get_security_options @@
    get_tap_adapter_options @@ get_switch_options

all_options == generic_options @@ configuration_options

\* The order in which the required keys are visited by po::notify (the
\* sorted order of the required-key map, which is also declaration order).
RequiredOrder ==
    <<"security.signature_certificate_file",
      "security.signature_private_key_file">>

(***************************************************************************)
(* po::variables_map: per option a variable_value, the set of final        *)
(* options and the set of required options.                                *)
(***************************************************************************)
EmptyValue == [empty |-> TRUE, defaulted |-> FALSE, value |-> <<>>]

variables_map ==
    [m |-> [k \in DOMAIN all_options |-> EmptyValue],
     final |-> {},
     required |-> {}]

\* vm.count(key)
count(vm, key) == IF vm.m[key].empty THEN 0 ELSE 1

(***************************************************************************)
(* Conversion of the textual tokens of one option occurrence               *)
(* (value_semantic::parse).  The result is the new boxed value, or an      *)
(* exception.                                                              *)
(***************************************************************************)
BoolTrueTokens == {"", "on", "yes", "1", "true"}
BoolFalseTokens == {"off", "no", "0", "false"}

\* boost::lexical_cast<unsigned int> on the numerals used by the inputs.
UIntTokens == ("3000" :> 3000) @@ ("500" :> 500) @@ ("7000" :> 7000)

xparse(d, key, value_store, new_tokens) ==
    CASE d.kind = "list" ->
           [value |-> << (IF value_store = <<>> THEN <<>> ELSE value_store[1])
                         \o new_tokens >>,
            ex |-> NoException]
      [] d.kind # "list" /\ value_store # <<>> ->
           [value |-> value_store,
            ex |-> Throw("po::multiple_occurrences", <<key>>)]
      [] d.kind = "flag" /\ value_store = <<>> ->
           IF Len(new_tokens) > 1
           THEN [value |-> value_store,
                 ex |-> Throw("po::multiple_values", <<key>>)]
           ELSE [value |-> << IF new_tokens = <<>> THEN "" ELSE new_tokens[1] >>,
                 ex |-> NoException]
      [] d.kind \in {"string", "bool", "uint"} /\ value_store = <<>> ->
           IF Len(new_tokens) # 1
           THEN [value |-> value_store,
                 ex |-> Throw("po::validation_error", <<key>>)]
           ELSE LET s == new_tokens[1] IN
                CASE d.kind = "string" ->
                       [value |-> <<s>>, ex |-> NoException]
                  [] d.kind = "bool" ->
                       IF s \in BoolTrueTokens
                       THEN [value |-> <<TRUE>>, ex |-> NoException]
                       ELSE IF s \in BoolFalseTokens
                       THEN [value |-> <<FALSE>>, ex |-> NoException]
                       ELSE [value |-> value_store,
                             ex |-> Throw("po::invalid_option_value", <<key, s>>)]
                  [] d.kind = "uint" ->
                       IF s \in DOMAIN UIntTokens
                       THEN [value |-> <<UIntTokens[s]>>, ex |-> NoException]
                       ELSE [value |-> value_store,
                             ex |-> Throw("po::invalid_option_value", <<key, s>>)]

(***************************************************************************)
(* The parsers.  A source is a sequence of occurrences                     *)
(* [string_key, value]; parsing marks each as registered or not.           *)
(***************************************************************************)
Unregistered(source, desc) ==
    {i \in 1..Len(source) : source[i].string_key \notin DOMAIN desc}

Mark(source, desc) ==
    [i \in 1..Len(source) |->
        [string_key |-> source[i].string_key,
         value |-> source[i].value,
         unregistered |-> source[i].string_key \notin DOMAIN desc]]

\* po::parse_command_line(argc, argv, all_options): an unknown option throws.
parse_command_line(argv, desc) ==
    IF Unregistered(argv, desc) # {}
    THEN [options |-> <<>>,
          ex |-> Throw("po::unknown_option",
                       <<argv[CHOOSE i \in Unregistered(argv, desc) :
                              \A j \in Unregistered(argv, desc) : i <= j].string_key>>)]
    ELSE [options |-> Mark(argv, desc), ex |-> NoException]

\* po::parse_config_file(ifs, configuration_options, allow_unregistered).
parse_config_file(lines, desc, allow_unregistered) ==
    IF ~allow_unregistered /\ Unregistered(lines, desc) # {}
    THEN [options |-> <<>>,
          ex |-> Throw("po::unknown_option",
                       <<lines[CHOOSE i \in Unregistered(lines, desc) :
                               \A j \in Unregistered(lines, desc) : i <= j].string_key>>)]
    ELSE [options |-> Mark(lines, desc), ex |-> NoException]

(***************************************************************************)
(* po::store: options already final are skipped, an explicit value erases  *)
(* a defaulted one, every explicitly given option becomes final (no option *)
(* of the schema is composing), then defaults and required keys are        *)
(* recorded.                                                               *)
(***************************************************************************)
RECURSIVE StoreOptions(_, _, _, _, _)
StoreOptions(options, i, desc, xm_final, st) ==
    IF i > Len(options) \/ st.ex # NoException
    THEN st
    ELSE LET o == options[i]
             k == o.string_key
         IN  IF o.unregistered \/ k \in xm_final
             THEN StoreOptions(options, i + 1, desc, xm_final, st)
             ELSE LET v == IF st.m[k].defaulted THEN EmptyValue ELSE st.m[k]
                      r == xparse(desc[k], k, v.value, o.value)
                  IN  StoreOptions(options, i + 1, desc, xm_final,
                          [m |-> [st.m EXCEPT ![k] =
                                     [empty |-> r.value = <<>>,
                                      defaulted |-> FALSE,
                                      value |-> r.value]],
                           new_final |-> st.new_final \cup {k},
                           ex |-> r.ex])

ApplyDefaults(m, desc) ==
    [k \in DOMAIN m |->
        IF k \in DOMAIN desc /\ m[k].empty /\ desc[k].default # <<>>
        THEN [empty |-> FALSE, defaulted |-> TRUE, value |-> desc[k].default]
        ELSE m[k]]

\* store without the final set: a later source is stored over an earlier one.
store_over_final(parsed, desc, xm) ==
    IF parsed.ex # NoException
    THEN [vm |-> xm, ex |-> parsed.ex]
    ELSE LET st == StoreOptions(parsed.options, 1, desc, {},
                       [m |-> [k \in DOMAIN xm.m |->
                                  IF /\ k \in xm.final
                                     /\ k \in DOMAIN desc
                                     /\ desc[k].kind # "list"
                                  THEN EmptyValue ELSE xm.m[k]],
                        new_final |-> {}, ex |-> NoException])
         IN  IF st.ex # NoException
             THEN [vm |-> [xm EXCEPT !.m = st.m], ex |-> st.ex]
             ELSE [vm |-> [m |-> ApplyDefaults(
                                   [k \in DOMAIN xm.m |->
                                       IF st.m[k].empty THEN xm.m[k] ELSE st.m[k]],
                                   desc),
                           final |-> xm.final \cup st.new_final,
                           required |-> xm.required \cup
                               {k \in DOMAIN desc : desc[k].required}],
                   ex |-> NoException]

store(parsed, desc, xm) ==
    IF parsed.ex # NoException
    THEN [vm |-> xm, ex |-> parsed.ex]
    ELSE LET st == StoreOptions(parsed.options, 1, desc, xm.final,
                       [m |-> xm.m, new_final |-> {}, ex |-> NoException])
         IN  IF st.ex # NoException
             THEN [vm |-> [xm EXCEPT !.m = st.m], ex |-> st.ex]
             ELSE [vm |-> [m |-> ApplyDefaults(st.m, desc),
                           final |-> xm.final \cup st.new_final,
                           required |-> xm.required \cup
                               {k \in DOMAIN desc : desc[k].required}],
                   ex |-> NoException]

\* notify visiting the required keys in the reverse order.
notify_reversed(vm) ==
    LET missing == {i \in 1..Len(RequiredOrder) :
                       /\ RequiredOrder[i] \in vm.required
                       /\ vm.m[RequiredOrder[i]].empty}
    IN  IF missing = {}
        THEN NoException
        ELSE Throw("po::required_option",
                   <<RequiredOrder[CHOOSE i \in missing :
                                      \A j \in missing : i >= j]>>)

\* po::notify(vm): the first required key without a value is reported.
notify(vm) ==
    LET missing == {i \in 1..Len(RequiredOrder) :
                       /\ RequiredOrder[i] \in vm.required
                       /\ vm.m[RequiredOrder[i]].empty}
    IN  IF missing = {}
        THEN NoException
        ELSE Throw("po::required_option",
                   <<RequiredOrder[CHOOSE i \in missing :
                                      \A j \in missing : i <= j]>>)

\* vm[key].as<T>(): a key without a value makes the any_cast fail.
as(vm, key) ==
    IF vm.m[key].empty
    THEN [value |-> <<>>, ex |-> Throw("boost::bad_any_cast", <<key>>),
          opened |-> <<>>]
    ELSE [value |-> vm.m[key].value, ex |-> NoException, opened |-> <<>>]

(***************************************************************************)
(* Conversions of configuration_helper.cpp.  Each result is                *)
(* [value, ex, opened]: the boxed typed value, the exception thrown, and   *)
(* the files the conversion tried to open.                                 *)
(***************************************************************************)
Ok(v) == [value |-> <<v>>, ex |-> NoException, opened |-> <<>>]

Fail(type, what) == [value |-> <<>>, ex |-> Throw(type, what), opened |-> <<>>]

parse_network_hostname_resolution_protocol(str) ==
    IF str = "system_default" THEN Ok("udp::v4")
    ELSE IF str = "ipv4" THEN Ok("udp::v4")
    ELSE IF str = "ipv6" THEN Ok("udp::v6")
    ELSE Fail("std::runtime_error",
              <<str, " is not a valid hostname resolution protocol">>)

to_certificate_validation_method(str) ==
    IF str = "default" THEN Ok("CVM_DEFAULT")
    ELSE IF str = "none" THEN Ok("CVM_NONE")
    ELSE Fail("std::runtime_error",
              <<str, " is not a valid certificate validation method">>)

to_time_duration(msduration) == Ok([milliseconds |-> msduration])

to_routing_method(str) ==
    IF str = "switch" THEN Ok("RM_SWITCH")
    ELSE IF str = "hub" THEN Ok("RM_HUB")
    ELSE Fail("std::runtime_error", <<str, " is not a valid routing method">>)

\* parse<T> and parse_optional<T> of parsers.hpp, on the tokens used by the
\* inputs: a well-formed token yields its typed value, any other throws.
EndpointTokens ==
    ("0.0.0.0:12000" :> [host |-> "0.0.0.0", port |-> 12000]) @@
    ("10.0.0.2:12000" :> [host |-> "10.0.0.2", port |-> 12000]) @@
    ("peer.example:12001" :> [host |-> "peer.example", port |-> 12001])

AddressPrefixTokens ==
    ("9.0.0.1/24" :> [address |-> "9.0.0.1", prefix_length |-> 24]) @@
    ("9.0.0.0/24" :> [address |-> "9.0.0.0", prefix_length |-> 24]) @@
    ("fe80::1/10" :> [address |-> "fe80::1", prefix_length |-> 10]) @@
    ("fe80::/10" :> [address |-> "fe80::", prefix_length |-> 10])

EthernetAddressTokens ==
    ("00:aa:bb:cc:dd:ee" :> <<0, 170, 187, 204, 221, 238>>)

parse_endpoint(str) ==
    IF str \in DOMAIN EndpointTokens THEN Ok(EndpointTokens[str])
    ELSE Fail("std::runtime_error", <<"invalid endpoint: ", str>>)

parse_optional_address_prefix_length(str) ==
    IF str = "" THEN Ok(<<>>)
    ELSE IF str \in DOMAIN AddressPrefixTokens THEN Ok(<<AddressPrefixTokens[str]>>)
    ELSE Fail("std::runtime_error", <<"invalid address/prefix length: ", str>>)

parse_ethernet_address(str) ==
    IF str \in DOMAIN EthernetAddressTokens THEN Ok(EthernetAddressTokens[str])
    ELSE Fail("std::runtime_error", <<"invalid ethernet address: ", str>>)

(***************************************************************************)
(* Credential files on disk: a name that is not in the domain cannot be    *)
(* opened, "garbage" opens but holds no certificate or key.                *)
(***************************************************************************)
CredentialFiles ==
    ("sig.crt" :> "certificate") @@ ("sig.key" :> "private_key") @@
    ("enc.crt" :> "certificate") @@ ("enc.key" :> "private_key") @@
    ("ca1.crt" :> "certificate") @@ ("ca2.crt" :> "certificate") @@
    ("garbage.pem" :> "garbage")

load_file(filename) ==
    IF filename \in DOMAIN CredentialFiles
    THEN [value |-> <<[name |-> filename, content |-> CredentialFiles[filename]]>>,
          ex |-> NoException, opened |-> <<filename>>]
    ELSE [value |-> <<>>,
          ex |-> Throw("std::runtime_error",
                       <<"Unable to open the specified file: ", filename>>),
          opened |-> <<filename>>]

\* cert_type::from_certificate / from_trusted_certificate / pkey::from_private_key
FromFile(f, content, what) ==
    IF f.ex # NoException THEN f
    ELSE IF f.value[1].content = content
    THEN [f EXCEPT !.value = <<[what |-> what, file |-> f.value[1].name]>>]
    ELSE [f EXCEPT !.value = <<>>,
                   !.ex = Throw("cryptoplus::error", <<"PEM read failed">>)]

load_certificate(filename) ==
    FromFile(load_file(filename), "certificate", "certificate")

load_private_key(filename) ==
    FromFile(load_file(filename), "private_key", "private_key")

load_trusted_certificate(filename) ==
    FromFile(load_file(filename), "certificate", "trusted_certificate")

(***************************************************************************)
(* fl::configuration.  A field is boxed (<<>> until it is assigned); the   *)
(* two lists are the lists themselves.                                     *)
(***************************************************************************)
ConfigurationFields ==
    {"fscp.hostname_resolution_protocol", "fscp.listen_on",
     "fscp.hello_timeout", "fscp.contact_list",
     "security.identity", "security.certificate_validation_method",
     "security.certificate_authority_list",
     "security.certificate_validation_callback",
     "tap_adapter.enabled", "tap_adapter.ipv4_address_prefix_length",
     "tap_adapter.ipv6_address_prefix_length",
     "tap_adapter.arp_proxy_enabled",
     "tap_adapter.arp_proxy_fake_ethernet_address",
     "tap_adapter.dhcp_proxy_enabled",
     "tap_adapter.dhcp_server_ipv4_address_prefix_length",
     "tap_adapter.dhcp_server_ipv6_address_prefix_length",
     "switch.routing_method", "switch.relay_mode_enabled"}

\* fl::configuration configuration;  (main)
DefaultConfiguration == [f \in ConfigurationFields |-> <<>>]

(***************************************************************************)
(* setup_configuration.  The running result is                             *)
(* [configuration, ex, opened]; a statement is skipped once ex is set,     *)
(* which is how the exception leaves the function.                         *)
(***************************************************************************)
\* The named conversion applied to the value of a, unless a threw.
Conv(conversion, a) ==
    IF a.ex # NoException THEN a
    ELSE LET v == a.value[1] IN
         CASE conversion = "parse_network_hostname_resolution_protocol" ->
                parse_network_hostname_resolution_protocol(v)
           [] conversion = "parse_endpoint" -> parse_endpoint(v)
           [] conversion = "to_time_duration" -> to_time_duration(v)
           [] conversion = "load_certificate" -> load_certificate(v)
           [] conversion = "load_private_key" -> load_private_key(v)
           [] conversion = "to_certificate_validation_method" ->
                to_certificate_validation_method(v)
           [] conversion = "parse_optional_address_prefix_length" ->
                parse_optional_address_prefix_length(v)
           [] conversion = "parse_ethernet_address" -> parse_ethernet_address(v)
           [] conversion = "to_routing_method" -> to_routing_method(v)

\* res evaluated after prev: res is not evaluated when prev threw.
Then(prev, res) ==
    IF prev.ex # NoException
    THEN [value |-> <<>>, ex |-> prev.ex, opened |-> prev.opened]
    ELSE [value |-> res.value, ex |-> res.ex,
          opened |-> prev.opened \o res.opened]

\* configuration.<field> = <res>;
Assign(r, field, res) ==
    IF r.ex # NoException THEN r
    ELSE [configuration |->
              IF res.ex = NoException
              THEN [r.configuration EXCEPT ![field] = res.value]
              ELSE r.configuration,
          ex |-> res.ex,
          opened |-> r.opened \o res.opened]

\* BOOST_FOREACH(contact, contact_list) contact_list.push_back(parse(contact))
RECURSIVE PushContacts(_, _, _)
PushContacts(r, contact_list, i) ==
    IF r.ex # NoException \/ i > Len(contact_list) THEN r
    ELSE LET res == parse_endpoint(contact_list[i]) IN
         PushContacts(
             [configuration |->
                  IF res.ex = NoException
                  THEN [r.configuration EXCEPT
                           !["fscp.contact_list"] = Append(@, res.value[1])]
                  ELSE r.configuration,
              ex |-> res.ex,
              opened |-> r.opened \o res.opened],
             contact_list, i + 1)

SetupContactList(r, vm) ==
    IF r.ex # NoException THEN r
    ELSE LET a == as(vm, "fscp.contact") IN
         IF a.ex # NoException THEN [r EXCEPT !.ex = a.ex]
         ELSE PushContacts(
                  [r EXCEPT !.configuration["fscp.contact_list"] = <<>>],
                  a.value[1], 1)

\* The certificate loaded only when the key option is present as well.
LoadsEncryptionCertificateIfBoth(vm) ==
    /\ count(vm, "security.encryption_certificate_file") > 0
    /\ count(vm, "security.encryption_private_key_file") > 0

\* if (vm.count("security.encryption_certificate_file"))
LoadsEncryptionCertificate(vm) ==
    count(vm, "security.encryption_certificate_file") > 0

\* if (vm.count("security.encryption_private_key_file"))
LoadsEncryptionPrivateKey(vm) ==
    count(vm, "security.encryption_private_key_file") > 0

\* The four credentials and the identity_store built from them.
SetupIdentity(r, vm) ==
    IF r.ex # NoException THEN r
    ELSE LET none == [value |-> <<>>, ex |-> NoException, opened |-> <<>>]
             sc == Conv("load_certificate",
                        as(vm, "security.signature_certificate_file"))
             sk == Then(sc, Conv("load_private_key",
                        as(vm, "security.signature_private_key_file")))
             ec == Then(sk, IF LoadsEncryptionCertificate(vm)
                            THEN Conv("load_certificate",
                                      as(vm, "security.encryption_certificate_file"))
                            ELSE none)
             ek == Then(ec, IF LoadsEncryptionPrivateKey(vm)
                            THEN Conv("load_private_key",
                                      as(vm, "security.encryption_private_key_file"))
                            ELSE none)
         IN  Assign(r, "security.identity",
                 [value |-> IF ek.ex # NoException THEN <<>>
                            ELSE <<[signature_certificate |-> sc.value[1],
                                    signature_key |-> sk.value[1],
                                    encryption_certificate |-> ec.value,
                                    encryption_key |-> ek.value]>>,
                  ex |-> ek.ex,
                  opened |-> ek.opened])

\* BOOST_FOREACH(file, list) certificate_authority_list.push_back(load(file))
RECURSIVE PushAuthorities(_, _, _)
PushAuthorities(r, authority_certificate_file_list, i) ==
    IF r.ex # NoException \/ i > Len(authority_certificate_file_list) THEN r
    ELSE LET res == load_trusted_certificate(authority_certificate_file_list[i]) IN
         PushAuthorities(
             [configuration |->
                  IF res.ex = NoException
                  THEN [r.configuration EXCEPT
                           !["security.certificate_authority_list"] =
                               Append(@, res.value[1])]
                  ELSE r.configuration,
              ex |-> res.ex,
              opened |-> r.opened \o res.opened],
             authority_certificate_file_list, i + 1)

SetupAuthorityList(r, vm) ==
    IF r.ex # NoException THEN r
    ELSE LET a == as(vm, "security.authority_certificate_file") IN
         IF a.ex # NoException THEN [r EXCEPT !.ex = a.ex]
         ELSE PushAuthorities(
                  [r EXCEPT !.configuration["security.certificate_authority_list"] = <<>>],
                  a.value[1], 1)

SetupFscp(r, vm) ==
    LET r1 == Assign(r, "fscp.hostname_resolution_protocol",
                  Conv("parse_network_hostname_resolution_protocol",
                       as(vm, "fscp.hostname_resolution_protocol")))
        r2 == Assign(r1, "fscp.listen_on",
                  Conv("parse_endpoint", as(vm, "fscp.listen_on")))
        r3 == Assign(r2, "fscp.hello_timeout",
                  Conv("to_time_duration", as(vm, "fscp.hello_timeout")))
    IN  SetupContactList(r3, vm)

SetupSecurity(r, vm) ==
    LET r1 == SetupIdentity(r, vm)
        r2 == Assign(r1, "security.certificate_validation_method",
                  Conv("to_certificate_validation_method",
                       as(vm, "security.certificate_validation_method")))
    IN  SetupAuthorityList(r2, vm)

SetupTapAdapter(r, vm) ==
    LET r1 == Assign(r, "tap_adapter.enabled", as(vm, "tap_adapter.enabled"))
        r2 == Assign(r1, "tap_adapter.ipv4_address_prefix_length",
                  Conv("parse_optional_address_prefix_length",
                       as(vm, "tap_adapter.ipv4_address_prefix_length")))
        r3 == Assign(r2, "tap_adapter.ipv6_address_prefix_length",
                  Conv("parse_optional_address_prefix_length",
                       as(vm, "tap_adapter.ipv6_address_prefix_length")))
        r4 == Assign(r3, "tap_adapter.arp_proxy_enabled",
                  as(vm, "tap_adapter.arp_proxy_enabled"))
        r5 == Assign(r4, "tap_adapter.arp_proxy_fake_ethernet_address",
                  Conv("parse_ethernet_address",
                       as(vm, "tap_adapter.arp_proxy_fake_ethernet_address")))
        r6 == Assign(r5, "tap_adapter.dhcp_proxy_enabled",
                  as(vm, "tap_adapter.dhcp_proxy_enabled"))
        r7 == Assign(r6, "tap_adapter.dhcp_server_ipv4_address_prefix_length",
                  Conv("parse_optional_address_prefix_length",
                       as(vm, "tap_adapter.dhcp_server_ipv4_address_prefix_length")))
    IN  Assign(r7, "tap_adapter.dhcp_server_ipv6_address_prefix_length",
            Conv("parse_optional_address_prefix_length",
                 as(vm, "tap_adapter.dhcp_server_ipv6_address_prefix_length")))

SetupSwitch(r, vm) ==
    LET r1 == Assign(r, "switch.routing_method",
                  Conv("to_routing_method", as(vm, "switch.routing_method")))
    IN  Assign(r1, "switch.relay_mode_enabled",
            as(vm, "switch.relay_mode_enabled"))

\* setup_configuration filling a copy that replaces the caller's object only
\* when every statement succeeded.
setup_configuration_on_copy(configuration, vm) ==
    LET r == SetupSwitch(
                 SetupTapAdapter(
                     SetupSecurity(
                         SetupFscp([configuration |-> configuration,
                                    ex |-> NoException,
                                    opened |-> <<>>], vm),
                         vm),
                     vm),
                 vm)
    IN  IF r.ex # NoException
        THEN [r EXCEPT !.configuration = configuration]
        ELSE r

\* The caller's object is written in place, statement by statement.
setup_configuration(configuration, vm) ==
    SetupSwitch(
        SetupTapAdapter(
            SetupSecurity(
                SetupFscp([configuration |-> configuration,
                           ex |-> NoException,
                           opened |-> <<>>], vm),
                vm),
            vm),
        vm)

get_certificate_validation_script(vm) ==
    as(vm, "security.certificate_validation_script")

\* The discovery candidates, per-user path first.
get_configuration_files ==
    <<"~/.freelan/freelan.cfg", "<application directory>/freelan.cfg">>

(***************************************************************************)
(* The program state.                                                      *)
(***************************************************************************)
VARIABLES
    argv,                 \* the command line, a sequence of occurrences
    env,                  \* boxed value of FREELAN_CONFIGURATION_FILE
    files,                \* the configuration files that can be opened: path -> lines
    pc,                   \* position in main / parse_options
    vm,                   \* po::variables_map vm
    configuration_file,   \* std::string configuration_file
    configuration,        \* boxed fl::configuration of main (<<>> once out of scope)
    debug,                \* bool debug
    ex,                   \* the exception thrown, NoException if none
    exit_status,          \* boxed return value of main
    cout,                 \* lines written to std::cout
    cerr,                 \* lines written to std::cerr
    read,                 \* configuration files parsed, in order
    probed,               \* configuration paths the program tried to open
    credentials_opened,   \* credential files the program tried to open
    assembled,            \* setup_configuration has been entered
    parse_returned,       \* boxed return value of parse_options
    core,                 \* freelan::core: absent, constructed, open, closed, destroyed
    core_configuration,   \* boxed configuration the core was constructed from
    stop_function         \* the global stop hook: 0 or what it is bound to

vars == <<argv, env, files, pc, vm, configuration_file, configuration, debug,
          ex, exit_status, cout, cerr, read, probed, credentials_opened,
          assembled, parse_returned, core, core_configuration, stop_function>>

inputs == <<argv, env, files>>

engine == <<core, core_configuration, stop_function>>

EXIT_SUCCESS == 0
EXIT_FAILURE == 1

Occ(k, v) == [string_key |-> k, value |-> v]

(***************************************************************************)
(* parse_options                                                           *)
(***************************************************************************)
\* po::store(po::parse_command_line(argc, argv, all_options), vm);
ParseCommandLine ==
    /\ pc = "parse_command_line"
    /\ LET s == store(parse_command_line(argv, all_options), all_options, vm) IN
       /\ vm' = s.vm
       /\ ex' = s.ex
       /\ pc' = IF s.ex # NoException THEN "catch" ELSE "select_file"
    /\ UNCHANGED <<inputs, configuration_file, configuration, debug,
                   exit_status, cout, cerr, read, probed, credentials_opened,
                   assembled, parse_returned, engine>>

\* The command-line value if the option was given, else the environment's.
SelectConfigurationFile ==
    /\ pc = "select_file"
    /\ configuration_file' =
          IF count(vm, "configuration_file") > 0
          THEN vm.m["configuration_file"].value[1]
          ELSE IF env # <<>> THEN env[1] ELSE ""
    /\ pc' = "read_file"
    /\ UNCHANGED <<inputs, vm, configuration, debug, ex, exit_status, cout,
                   cerr, read, probed, credentials_opened, assembled,
                   parse_returned, engine>>

\* ReadConfigurationFile warning and going on when the file cannot be opened.
ReadConfigurationFileOrWarn ==
    /\ pc = "read_file"
    /\ configuration_file # ""
    /\ cout' = Append(cout, <<"Reading configuration file at: ", configuration_file>>)
    /\ probed' = Append(probed, configuration_file)
    /\ IF configuration_file \notin DOMAIN files
       THEN /\ cerr' = Append(cerr,
                  <<"Warning ! No configuration file specified and none found in the environment.">>)
            /\ pc' = "notify"
            /\ UNCHANGED <<vm, read, ex>>
       ELSE LET s == store(parse_config_file(files[configuration_file],
                                             configuration_options, TRUE),
                           configuration_options, vm) IN
            /\ vm' = s.vm
            /\ ex' = s.ex
            /\ read' = Append(read, configuration_file)
            /\ pc' = IF s.ex # NoException THEN "catch" ELSE "notify"
            /\ UNCHANGED cerr
    /\ UNCHANGED <<inputs, configuration_file, configuration, debug,
                   exit_status, credentials_opened, assembled,
                   parse_returned, engine>>

\* if (!configuration_file.empty()): the named file is read or the call throws.
ReadConfigurationFile ==
    /\ pc = "read_file"
    /\ configuration_file # ""
    /\ cout' = Append(cout, <<"Reading configuration file at: ", configuration_file>>)
    /\ probed' = Append(probed, configuration_file)
    /\ IF configuration_file \notin DOMAIN files
       THEN /\ ex' = Throw("po::reading_file", <<configuration_file>>)
            /\ pc' = "catch"
            /\ UNCHANGED <<vm, read>>
       ELSE LET s == store(parse_config_file(files[configuration_file],
                                             configuration_options, TRUE),
                           configuration_options, vm) IN
            /\ vm' = s.vm
            /\ ex' = s.ex
            /\ read' = Append(read, configuration_file)
            /\ pc' = IF s.ex # NoException THEN "catch" ELSE "notify"
    /\ UNCHANGED <<inputs, configuration_file, configuration, debug,
                   exit_status, cerr, credentials_opened, assembled,
                   parse_returned, engine>>

\* The discovery loop without its break: every candidate that opens is parsed.
RECURSIVE DiscoverLoopWithoutBreak(_, _, _, _)
DiscoverLoopWithoutBreak(configuration_files, i, disk, st) ==
    IF i > Len(configuration_files) \/ st.ex # NoException THEN st
    ELSE LET conf == configuration_files[i] IN
         IF conf \in DOMAIN disk
         THEN LET s == store(parse_config_file(disk[conf],
                                               configuration_options, TRUE),
                             configuration_options, st.vm) IN
              DiscoverLoopWithoutBreak(configuration_files, i + 1, disk,
                  [vm |-> s.vm,
                   ex |-> s.ex,
                   cout |-> Append(st.cout, <<"Reading configuration file at: ", conf>>),
                   read |-> Append(st.read, conf),
                   probed |-> Append(st.probed, conf),
                   configuration_read |-> st.configuration_read])
         ELSE DiscoverLoopWithoutBreak(configuration_files, i + 1, disk,
                  [st EXCEPT !.probed = Append(@, conf)])

\* BOOST_FOREACH(conf, configuration_files): the first file that opens is
\* parsed and ends the loop.  configuration_read is never assigned.
RECURSIVE DiscoverLoop(_, _, _, _)
DiscoverLoop(configuration_files, i, disk, st) ==
    IF i > Len(configuration_files) THEN st
    ELSE LET conf == configuration_files[i] IN
         IF conf \in DOMAIN disk
         THEN LET s == store(parse_config_file(disk[conf],
                                               configuration_options, TRUE),
                             configuration_options, st.vm) IN
              [vm |-> s.vm,
               ex |-> s.ex,
               cout |-> Append(st.cout, <<"Reading configuration file at: ", conf>>),
               read |-> Append(st.read, conf),
               probed |-> Append(st.probed, conf),
               configuration_read |-> st.configuration_read]
         ELSE DiscoverLoop(configuration_files, i + 1, disk,
                           [st EXCEPT !.probed = Append(@, conf)])

NoFileWarning ==
    <<"Warning ! No configuration file specified and none found in the environment.">>

\* else: discovery, then the warning when configuration_read is false.
DiscoverConfigurationFile ==
    /\ pc = "read_file"
    /\ configuration_file = ""
    /\ LET st == DiscoverLoop(get_configuration_files, 1, files,
                     [vm |-> vm, ex |-> NoException, cout |-> cout,
                      read |-> read, probed |-> probed,
                      configuration_read |-> FALSE]) IN
       /\ vm' = st.vm
       /\ ex' = st.ex
       /\ cout' = st.cout
       /\ read' = st.read
       /\ probed' = st.probed
       /\ cerr' = IF st.ex = NoException /\ ~st.configuration_read
                  THEN Append(cerr, NoFileWarning)
                  ELSE cerr
       /\ pc' = IF st.ex # NoException THEN "catch" ELSE "notify"
    /\ UNCHANGED <<inputs, configuration_file, configuration, debug,
                   exit_status, credentials_opened, assembled,
                   parse_returned, engine>>

\* po::notify(vm);
Notify ==
    /\ pc = "notify"
    /\ ex' = notify(vm)
    /\ pc' = IF notify(vm) # NoException THEN "catch" ELSE "help"
    /\ UNCHANGED <<inputs, vm, configuration_file, configuration, debug,
                   exit_status, cout, cerr, read, probed, credentials_opened,
                   assembled, parse_returned, engine>>

\* if (vm.count("help")) { print the options; return false; }
Help ==
    /\ pc = "help"
    /\ IF count(vm, "help") > 0
       THEN /\ cout' = Append(cout, <<"visible_options">>)
            /\ parse_returned' = <<FALSE>>
            /\ pc' = "return"
       ELSE /\ pc' = "setup_configuration"
            /\ UNCHANGED <<cout, parse_returned>>
    /\ UNCHANGED <<inputs, vm, configuration_file, configuration, debug, ex,
                   exit_status, cerr, read, probed, credentials_opened,
                   assembled, engine>>

\* setup_configuration(configuration, vm);
SetupConfiguration ==
    /\ pc = "setup_configuration"
    /\ LET r == setup_configuration(configuration[1], vm) IN
       /\ configuration' = <<r.configuration>>
       /\ ex' = r.ex
       /\ credentials_opened' = credentials_opened \o r.opened
       /\ pc' = IF r.ex # NoException THEN "catch" ELSE "validation_script"
    /\ assembled' = TRUE
    /\ UNCHANGED <<inputs, vm, configuration_file, debug, exit_status, cout,
                   cerr, read, probed, parse_returned, engine>>

\* The validation script: read from vm, bound as callback when not empty.
ValidationScript ==
    /\ pc = "validation_script"
    /\ LET script == get_certificate_validation_script(vm) IN
       /\ ex' = script.ex
       /\ pc' = IF script.ex # NoException THEN "catch" ELSE "debug"
       /\ configuration' =
             IF script.ex = NoException /\ script.value[1] # ""
             THEN <<[configuration[1] EXCEPT
                       !["security.certificate_validation_callback"] =
                           <<[bind |-> "execute_certificate_validation_script",
                              script |-> script.value[1]]>>]>>
             ELSE configuration
    /\ UNCHANGED <<inputs, vm, configuration_file, debug, exit_status, cout,
                   cerr, read, probed, credentials_opened, assembled,
                   parse_returned, engine>>

\* if (vm.count("debug")) debug = true;  return true;
Debug ==
    /\ pc = "debug"
    /\ debug' = IF count(vm, "debug") > 0 THEN TRUE ELSE debug
    /\ parse_returned' = <<TRUE>>
    /\ pc' = "construct"
    /\ UNCHANGED <<inputs, vm, configuration_file, configuration, ex,
                   exit_status, cout, cerr, read, probed, credentials_opened,
                   assembled, engine>>

(***************************************************************************)
(* main                                                                    *)
(***************************************************************************)
\* freelan::core core(io_service, configuration, logger);
ConstructCore ==
    /\ pc = "construct"
    /\ core' = "constructed"
    /\ core_configuration' = configuration
    /\ pc' = "open"
    /\ UNCHANGED <<inputs, vm, configuration_file, configuration, debug, ex,
                   exit_status, cout, cerr, read, probed, credentials_opened,
                   assembled, parse_returned, stop_function>>

\* core.open(); it opens the sockets and the tap adapter and may throw.
OpenCore ==
    /\ pc = "open"
    /\ \E ok \in BOOLEAN :
          IF ok
          THEN /\ core' = "open"
               /\ pc' = "bind_stop"
               /\ UNCHANGED ex
          ELSE /\ ex' = Throw("std::runtime_error", <<"core.open">>)
               /\ pc' = "catch"
               /\ UNCHANGED core
    /\ UNCHANGED <<inputs, vm, configuration_file, configuration, debug,
                   exit_status, cout, cerr, read, probed, credentials_opened,
                   assembled, parse_returned, core_configuration,
                   stop_function>>

\* stop_function = boost::bind(&freelan::core::close, boost::ref(core));
BindStop ==
    /\ pc = "bind_stop"
    /\ stop_function' = "core.close"
    /\ pc' = "announce"
    /\ UNCHANGED <<inputs, vm, configuration_file, configuration, debug, ex,
                   exit_status, cout, cerr, read, probed, credentials_opened,
                   assembled, parse_returned, core, core_configuration>>

\* The tap adapter and listening endpoint lines; local_endpoint() may throw.
Announce ==
    /\ pc = "announce"
    /\ \E ok \in BOOLEAN :
          IF ok
          THEN /\ cout' = Append(cout, <<"Listening on: ">>)
               /\ pc' = "run"
               /\ UNCHANGED ex
          ELSE /\ ex' = Throw("boost::system::system_error", <<"local_endpoint">>)
               /\ pc' = "catch"
               /\ UNCHANGED cout
    /\ UNCHANGED <<inputs, vm, configuration_file, configuration, debug,
                   exit_status, cerr, read, probed, credentials_opened,
                   assembled, parse_returned, engine>>

\* io_service.run(); it returns once the core is closed, or a handler throws.
Run ==
    /\ pc = "run"
    /\ \E ok \in BOOLEAN :
          IF ok
          THEN /\ core' = "closed"
               /\ pc' = "clear_stop"
               /\ UNCHANGED ex
          ELSE /\ ex' = Throw("std::runtime_error", <<"io_service.run">>)
               /\ pc' = "catch"
               /\ UNCHANGED core
    /\ UNCHANGED <<inputs, vm, configuration_file, configuration, debug,
                   exit_status, cout, cerr, read, probed, credentials_opened,
                   assembled, parse_returned, core_configuration,
                   stop_function>>

\* stop_function = 0;
ClearStop ==
    /\ pc = "clear_stop"
    /\ stop_function' = "0"
    /\ pc' = "return"
    /\ UNCHANGED <<inputs, vm, configuration_file, configuration, debug, ex,
                   exit_status, cout, cerr, read, probed, credentials_opened,
                   assembled, parse_returned, core, core_configuration>>

\* The handler falling through to the successful return.
CatchThenSuccess ==
    /\ pc = "catch"
    /\ cerr' = Append(cerr, <<"Error: ", ex.what>>)
    /\ configuration' = <<>>
    /\ core' = IF core = "absent" THEN core ELSE "destroyed"
    /\ exit_status' = <<EXIT_SUCCESS>>
    /\ pc' = "done"
    /\ UNCHANGED <<inputs, vm, configuration_file, debug, ex, cout, read,
                   probed, credentials_opened, assembled, parse_returned,
                   core_configuration, stop_function>>

\* catch (std::exception& ex): the try block's objects are destroyed, the
\* message is printed, main returns EXIT_FAILURE.
Catch ==
    /\ pc = "catch"
    /\ cerr' = Append(cerr, <<"Error: ", ex.what>>)
    /\ configuration' = <<>>
    /\ core' = IF core = "absent" THEN core ELSE "destroyed"
    /\ exit_status' = <<EXIT_FAILURE>>
    /\ pc' = "done"
    /\ UNCHANGED <<inputs, vm, configuration_file, debug, ex, cout, read,
                   probed, credentials_opened, assembled, parse_returned,
                   core_configuration, stop_function>>

\* return EXIT_SUCCESS; after the try block was left normally.
Return ==
    /\ pc = "return"
    /\ configuration' = <<>>
    /\ core' = IF core = "absent" THEN core ELSE "destroyed"
    /\ exit_status' = <<EXIT_SUCCESS>>
    /\ pc' = "done"
    /\ UNCHANGED <<inputs, vm, configuration_file, debug, ex, cout, cerr,
                   read, probed, credentials_opened, assembled,
                   parse_returned, core_configuration, stop_function>>

(***************************************************************************)
(* The explored inputs: four families, each varying one part of the       *)
(* input: the choice of the file, the merge of the sources, the            *)
(* credentials, the conversions.                                           *)
(***************************************************************************)
TokenLists(S) == UNION {[1..n -> S] : n \in 0..MaxTokens}

NonEmptyTokenLists(S) == UNION {[1..n -> S] : n \in 1..MaxTokens}

\* One occurrence of key k when the boxed choice is present.
Given(k, choice) == IF choice = <<>> THEN <<>> ELSE <<Occ(k, choice[1])>>

\* A configuration file gives a list option one token per line.
Lines(k, choice) ==
    IF choice = <<>> THEN <<>>
    ELSE [i \in 1..Len(choice[1]) |-> Occ(k, <<choice[1][i]>>)]

Boxed(S) == {<<>>} \cup {<<x>> : x \in S}

SignatureOptions ==
    <<Occ("security.signature_certificate_file", <<"sig.crt">>),
      Occ("security.signature_private_key_file", <<"sig.key">>)>>

ScriptOption ==
    <<Occ("security.certificate_validation_script", <<"validate.sh">>)>>

HomePath == get_configuration_files[1]
ApplicationPath == get_configuration_files[2]

Disk(home, app, lines) ==
    [p \in {"explicit.cfg", "env.cfg"}
           \cup (IF home THEN {HomePath} ELSE {})
           \cup (IF app THEN {ApplicationPath} ELSE {}) |-> lines]

ResolutionInputs ==
    {[argv |-> (IF help THEN <<Occ("help", <<>>)>> ELSE <<>>)
               \o Given("configuration_file", cf) \o opts,
      env |-> e,
      files |-> Disk(home, app, lines)] :
        help \in BOOLEAN,
        cf \in Boxed({<<"">>, <<"explicit.cfg">>, <<"missing.cfg">>}),
        e \in Boxed({"", "env.cfg", "missing.cfg"}),
        home \in BOOLEAN,
        app \in BOOLEAN,
        opts \in {<<>>,
                  SignatureOptions,
                  SignatureOptions \o ScriptOption,
                  <<SignatureOptions[1], Occ("fscp.hello_timeout", <<"500">>)>>},
        lines \in {<<>>,
                   SignatureOptions \o ScriptOption,
                   <<SignatureOptions[2], Occ("fscp.hello_timeout", <<"7000">>)>>,
                   <<SignatureOptions[1]>>,
                   <<Occ("tap_adapter.enabled", <<"no">>),
                     Occ("fscp.unknown_key", <<"1">>)>>}}

SignaturePlacements ==
    {[cli |-> SignatureOptions, file |-> <<>>],
     [cli |-> <<>>, file |-> SignatureOptions],
     [cli |-> <<SignatureOptions[1]>>, file |-> <<SignatureOptions[2]>>]}

ContactTokens == {"10.0.0.2:12000", "peer.example:12001"}

MergeInputs ==
    {[argv |-> <<Occ("configuration_file", <<"explicit.cfg">>)>>
               \o sig.cli
               \o Given("tap_adapter.enabled", tapc)
               \o Given("fscp.contact", contactc)
               \o Given("security.authority_certificate_file", cac)
               \o ScriptOption,
      env |-> <<>>,
      files |-> Disk(FALSE, TRUE,
                     sig.file
                     \o Given("tap_adapter.enabled", tapf)
                     \o Lines("fscp.contact", contactf)
                     \o Lines("security.authority_certificate_file", caf))] :
        sig \in SignaturePlacements,
        tapc \in Boxed({<<"false">>, <<"yes">>}),
        tapf \in Boxed({<<"true">>, <<"off">>}),
        contactc \in Boxed(TokenLists(ContactTokens)),
        contactf \in Boxed({<<"0.0.0.0:12000">>}),
        cac \in Boxed({<<"ca1.crt">>}),
        caf \in Boxed({<<"ca2.crt">>})}

AuthorityTokens == {"ca1.crt", "missing-ca.crt"}

\* One further command-line occurrence, or none.
OtherOptions ==
    {<<>>,
     <<Occ("debug", <<>>)>>,
     <<Occ("fscp.hostname_resolution_protocol", <<"ipv6">>)>>,
     <<Occ("fscp.hostname_resolution_protocol", <<"bogus">>)>>,
     <<Occ("fscp.listen_on", <<"not an endpoint">>)>>,
     <<Occ("fscp.hello_timeout", <<"abc">>)>>,
     <<Occ("fscp.contact", <<"10.0.0.2:12000", "nowhere">>)>>,
     <<Occ("security.certificate_validation_method", <<"none">>)>>,
     <<Occ("security.certificate_validation_method", <<"bogus">>)>>,
     <<Occ("security.authority_certificate_file", <<"ca2.crt", "garbage.pem">>)>>,
     <<Occ("tap_adapter.enabled", <<"maybe">>)>>,
     <<Occ("tap_adapter.ipv4_address_prefix_length", <<"">>)>>,
     <<Occ("tap_adapter.arp_proxy_fake_ethernet_address", <<"00:aa">>)>>,
     <<Occ("tap_adapter.dhcp_server_ipv6_address_prefix_length", <<"fe80::/200">>)>>,
     <<Occ("switch.routing_method", <<"hub">>)>>,
     <<Occ("switch.routing_method", <<"bogus">>)>>,
     <<Occ("switch.relay_mode_enabled", <<"on">>),
       Occ("switch.relay_mode_enabled", <<"off">>)>>,
     <<Occ("unknown_option", <<"x">>)>>}

AssemblyInputs ==
    {[argv |-> <<Occ("security.signature_certificate_file", <<sc>>),
                 Occ("security.signature_private_key_file", <<"sig.key">>)>>
               \o Given("security.encryption_certificate_file", ec)
               \o Given("security.encryption_private_key_file", ek)
               \o Given("security.authority_certificate_file", ca)
               \o script,
      env |-> <<>>,
      files |-> Disk(FALSE, FALSE, <<>>)] :
        sc \in {"sig.crt", "garbage.pem"},
        ec \in Boxed({<<"enc.crt">>, <<"missing.pem">>}),
        ek \in Boxed({<<"enc.key">>, <<"missing.key">>}),
        ca \in Boxed(NonEmptyTokenLists(AuthorityTokens)),
        script \in {<<>>, ScriptOption}}

ConversionInputs ==
    {[argv |-> SignatureOptions \o other \o script,
      env |-> <<>>,
      files |-> Disk(FALSE, FALSE, <<>>)] :
        other \in OtherOptions,
        script \in {<<>>, ScriptOption}}

Inputs ==
    ResolutionInputs \cup MergeInputs \cup AssemblyInputs \cup ConversionInputs

Init ==
    /\ \E in \in Inputs :
          /\ argv = in.argv
          /\ env = in.env
          /\ files = in.files
    /\ pc = "parse_command_line"
    /\ vm = variables_map
    /\ configuration_file = ""
    /\ configuration = <<DefaultConfiguration>>
    /\ debug = FALSE
    /\ ex = NoException
    /\ exit_status = <<>>
    /\ cout = <<>>
    /\ cerr = <<>>
    /\ read = <<>>
    /\ probed = <<>>
    /\ credentials_opened = <<>>
    /\ assembled = FALSE
    /\ parse_returned = <<>>
    /\ core = "absent"
    /\ core_configuration = <<>>
    /\ stop_function = "0"

Next ==
    \/ ParseCommandLine
    \/ SelectConfigurationFile
    \/ ReadConfigurationFile
    \/ DiscoverConfigurationFile
    \/ Notify
    \/ Help
    \/ SetupConfiguration
    \/ ValidationScript
    \/ Debug
    \/ ConstructCore
    \/ OpenCore
    \/ BindStop
    \/ Announce
    \/ Run
    \/ ClearStop
    \/ Catch
    \/ Return

Spec == Init /\ [][Next]_vars

TypeOK ==
    /\ pc \in {"parse_command_line", "select_file", "read_file", "notify",
               "help", "setup_configuration", "validation_script", "debug",
               "construct", "open", "bind_stop", "announce", "run",
               "clear_stop", "catch", "return", "done"}
    /\ core \in {"absent", "constructed", "open", "closed", "destroyed"}
    /\ stop_function \in {"0", "core.close"}
    /\ exit_status \in {<<>>, <<EXIT_SUCCESS>>, <<EXIT_FAILURE>>}

(***************************************************************************)
(* What the inputs say, read off the sources without the variables map.    *)
(***************************************************************************)
RECURSIVE SourceTokens(_, _)
SourceTokens(source, k) ==
    IF source = <<>> THEN <<>>
    ELSE (IF Head(source).string_key = k THEN Head(source).value ELSE <<>>)
         \o SourceTokens(Tail(source), k)

SetBy(source, k) == \E i \in 1..Len(source) : source[i].string_key = k

CliSet(k) == SetBy(argv, k)

FileSet(k) == read # <<>> /\ SetBy(files[read[1]], k)

TypedValue(k, tokens) ==
    CASE all_options[k].kind = "list" -> tokens
      [] all_options[k].kind = "bool" -> tokens[1] \in BoolTrueTokens
      [] all_options[k].kind = "uint" -> UIntTokens[tokens[1]]
      [] OTHER -> tokens[1]

MergeExceptions ==
    {"po::unknown_option", "po::multiple_occurrences", "po::multiple_values",
     "po::validation_error", "po::invalid_option_value", "po::reading_file"}

\* Both sources have been stored into vm.
MergeCompleted ==
    /\ pc \notin {"parse_command_line", "select_file", "read_file"}
    /\ ex.type \notin MergeExceptions

\* The file stage has run (it always tries to open at least one path).
Resolved == probed # <<>>

HelpGiven == CliSet("help")

WarningEmitted == \E i \in 1..Len(cerr) : cerr[i] = NoFileWarning

UsagePrinted == \E i \in 1..Len(cout) : cout[i] = <<"visible_options">>

(***************************************************************************)
(* C1: for every schema option the merged value comes wholly from the      *)
(* highest-precedence source that set it: the command line, else the one   *)
(* configuration file that was read, else the schema default.  A           *)
(* command-line value is never overwritten by the file, and a list set on  *)
(* the command line holds no token of the file.                            *)
(***************************************************************************)
ExpectedValue(k) ==
    IF CliSet(k) THEN <<TypedValue(k, SourceTokens(argv, k))>>
    ELSE IF FileSet(k) THEN <<TypedValue(k, SourceTokens(files[read[1]], k))>>
    ELSE all_options[k].default

C1_Precedence ==
    MergeCompleted =>
        \A k \in DOMAIN configuration_options :
            /\ vm.m[k].value = ExpectedValue(k)
            /\ vm.m[k].defaulted = (~CliSet(k) /\ ~FileSet(k) /\ vm.m[k].value # <<>>)

C1_Witness ==
    /\ MergeCompleted
    /\ read # <<>>
    /\ SourceTokens(argv, "tap_adapter.enabled") = <<"false">>
    /\ SourceTokens(files[read[1]], "tap_adapter.enabled") = <<"true">>
    /\ vm.m["tap_adapter.enabled"].value = <<FALSE>>
    /\ SourceTokens(argv, "fscp.contact") = <<"peer.example:12001">>
    /\ SourceTokens(files[read[1]], "fscp.contact") = <<"0.0.0.0:12000">>
    /\ vm.m["fscp.contact"].value = << <<"peer.example:12001">> >>
    /\ ~CliSet("security.authority_certificate_file")
    /\ vm.m["security.authority_certificate_file"].value = << <<"ca2.crt">> >>

(***************************************************************************)
(* C2: with only the two mandatory options supplied, both naming loadable  *)
(* files, and everything else left to its default or absent, parse_options *)
(* returns true without an error and the identity has no encryption        *)
(* certificate and no encryption key.                                      *)
(***************************************************************************)
MinimalValueSet ==
    /\ MergeCompleted
    /\ \A k \in DOMAIN all_options :
          IF k \in {"security.signature_certificate_file",
                    "security.signature_private_key_file"}
          THEN vm.m[k].value \in {<<"sig.crt">>, <<"sig.key">>}
          ELSE vm.m[k].empty \/ vm.m[k].defaulted
    /\ vm.m["security.signature_certificate_file"].value = <<"sig.crt">>
    /\ vm.m["security.signature_private_key_file"].value = <<"sig.key">>

C2_MinimalAssemblySucceeds ==
    MinimalValueSet /\ pc \in {"catch", "construct", "done"} =>
        /\ parse_returned = <<TRUE>>
        /\ pc = "construct" =>
              /\ configuration[1]["security.identity"][1].encryption_certificate = <<>>
              /\ configuration[1]["security.identity"][1].encryption_key = <<>>

(***************************************************************************)
(* C3: whenever --help is on the command line the program prints the       *)
(* usage text, never runs setup_configuration or the engine, and exits     *)
(* with success status.                                                    *)
(***************************************************************************)
C3_HelpAlwaysSucceeds ==
    HelpGiven =>
        /\ ~assembled
        /\ core = "absent"
        /\ pc = "done" => exit_status = <<EXIT_SUCCESS>> /\ UsagePrinted

(***************************************************************************)
(* C4: if resolution or assembly fails the process exits with a non-zero   *)
(* status and the engine is never constructed or opened in that run; the   *)
(* engine exists only after parse_options has returned true.               *)
(***************************************************************************)
ConfigurationFailed == ex # NoException /\ parse_returned = <<>>

C4_FailureNeverStartsEngine ==
    /\ core # "absent" => parse_returned = <<TRUE>>
    /\ ConfigurationFailed =>
          /\ core = "absent"
          /\ core_configuration = <<>>
          /\ stop_function = "0"
          /\ pc \in {"catch", "done"}
          /\ pc = "done" => exit_status = <<EXIT_FAILURE>>

C4_Witness ==
    /\ pc = "done"
    /\ assembled
    /\ ConfigurationFailed
    /\ ex.what = <<"Unable to open the specified file: ", "missing-ca.crt">>
    /\ exit_status = <<EXIT_FAILURE>>
    /\ core = "absent"

(***************************************************************************)
(* C5: requiredness is checked once, after both sources were merged.  As   *)
(* stated: a required option set by neither source makes resolution fail   *)
(* with a missing-required-option error naming that option, assembly not   *)
(* being run; an option set only in the file satisfies the requirement.    *)
(***************************************************************************)
Supplied(k) == CliSet(k) \/ FileSet(k)

NotifyHasRun == MergeCompleted /\ pc # "notify"

MissingRequired == {k \in {RequiredOrder[i] : i \in 1..Len(RequiredOrder)} : ~Supplied(k)}

C5_MissingOptionIsNamed ==
    NotifyHasRun =>
        \A k \in {RequiredOrder[i] : i \in 1..Len(RequiredOrder)} :
            IF Supplied(k)
            THEN ex # Throw("po::required_option", <<k>>)
            ELSE ex = Throw("po::required_option", <<k>>) /\ ~assembled

\* C5 as amended: the error names the first missing required option, in
\* the order signature certificate, signature private key; a later missing
\* option is named only when the earlier one is supplied.
FirstMissingRequired ==
    RequiredOrder[CHOOSE i \in 1..Len(RequiredOrder) :
                     /\ RequiredOrder[i] \in MissingRequired
                     /\ \A j \in 1..(i - 1) : RequiredOrder[j] \notin MissingRequired]

C5_FirstMissingOptionIsNamed ==
    NotifyHasRun =>
        IF MissingRequired = {}
        THEN ex.type # "po::required_option"
        ELSE /\ ex = Throw("po::required_option", <<FirstMissingRequired>>)
             /\ ~assembled
             /\ pc \in {"catch", "done"}

C5_Witness ==
    /\ pc = "catch"
    /\ ~CliSet("security.signature_certificate_file")
    /\ FileSet("security.signature_certificate_file")
    /\ MissingRequired = {"security.signature_private_key_file"}
    /\ ex = Throw("po::required_option", <<"security.signature_private_key_file">>)
    /\ ~assembled

(***************************************************************************)
(* C6: a configuration-file path supplied by --configuration_file or,      *)
(* absent that, by FREELAN_CONFIGURATION_FILE, that cannot be opened makes *)
(* resolution fail with a file-unreadable error: no discovery path is      *)
(* probed, no warning is emitted, no configuration is assembled.  As       *)
(* stated this covers every supplied value, the empty one included.        *)
(***************************************************************************)
\* The boxed path the inputs supply: the command line's, else the environment's.
SuppliedPath ==
    IF CliSet("configuration_file")
    THEN <<SourceTokens(argv, "configuration_file")[1]>>
    ELSE env

DiscoveryProbed ==
    \E i \in 1..Len(probed) : \E j \in 1..Len(get_configuration_files) :
        probed[i] = get_configuration_files[j]

UnreadableIsFatal ==
    /\ ex = Throw("po::reading_file", <<SuppliedPath[1]>>)
    /\ pc \in {"catch", "done"}
    /\ ~DiscoveryProbed
    /\ ~WarningEmitted
    /\ ~assembled

C6_AnyUnreadablePathIsFatal ==
    Resolved /\ SuppliedPath # <<>> /\ SuppliedPath[1] \notin DOMAIN files =>
        UnreadableIsFatal

\* C6 as amended: the rule holds for every non-empty supplied path; an empty
\* value counts as no path and discovery runs.
C6_NonEmptyUnreadablePathIsFatal ==
    Resolved =>
        /\ SuppliedPath # <<>> /\ SuppliedPath[1] # ""
                /\ SuppliedPath[1] \notin DOMAIN files
             => UnreadableIsFatal
        /\ SuppliedPath = <<"">> => probed[1] = get_configuration_files[1]

C6_Witness ==
    /\ pc = "done"
    /\ ~CliSet("configuration_file")
    /\ env = <<"missing.cfg">>
    /\ HomePath \in DOMAIN files
    /\ probed = <<"missing.cfg">>
    /\ ex = Throw("po::reading_file", <<"missing.cfg">>)
    /\ exit_status = <<EXIT_FAILURE>>

(***************************************************************************)
(* C7: at most one configuration file is read, chosen by strict            *)
(* precedence: the command-line path if one was supplied, else the         *)
(* environment variable's path if set, else the first discovery candidate  *)
(* that exists; later candidates are never read once one was found.        *)
(***************************************************************************)
FirstExisting ==
    IF \E i \in 1..Len(get_configuration_files) :
           get_configuration_files[i] \in DOMAIN files
    THEN <<get_configuration_files[
             CHOOSE i \in 1..Len(get_configuration_files) :
                /\ get_configuration_files[i] \in DOMAIN files
                /\ \A j \in 1..(i - 1) :
                      get_configuration_files[j] \notin DOMAIN files]>>
    ELSE <<>>

CliPath == SourceTokens(argv, "configuration_file")

\* The file the stated precedence selects (an empty value supplies no path).
StatedChoice ==
    IF CliPath # <<>> /\ CliPath[1] # "" THEN <<CliPath[1]>>
    ELSE IF env # <<>> /\ env[1] # "" THEN env
    ELSE FirstExisting

CodeChoice ==
    IF CliPath # <<>>
    THEN (IF CliPath[1] # "" THEN <<CliPath[1]>> ELSE FirstExisting)
    ELSE IF env # <<>> /\ env[1] # "" THEN env
    ELSE FirstExisting

C8_WarningOnlyWhenNoneFound ==
    Resolved /\ SuppliedPath = <<>> /\ MergeCompleted =>
        (WarningEmitted <=> FirstExisting = <<>>)

(***************************************************************************)
(* C9: assembly is atomic for the configuration object of the caller.  As  *)
(* stated: when an assembly step fails the object holds none of the values *)
(* of the failed run, it is unchanged from before the call.                *)
(***************************************************************************)
\* setup_configuration threw (get_certificate_validation_script throws
\* boost::bad_any_cast only, the engine throws after parse_options returned).
AssemblyFailed ==
    /\ pc = "catch"
    /\ assembled
    /\ parse_returned = <<>>
    /\ ex.type \in {"std::runtime_error", "cryptoplus::error"}

C9_FailedAssemblyLeavesObjectUnchanged ==
    AssemblyFailed => configuration = <<DefaultConfiguration>>

\* C9 as amended: the object is written in place, so after a failed step it
\* holds the values assigned before that step and nothing after it; when an
\* authority certificate cannot be opened the error names its path and the
\* list holds exactly the certificates loaded before it; the object is
\* destroyed with main's try block and no engine is built from it.
AssignmentOrder ==
    <<"fscp.hostname_resolution_protocol", "fscp.listen_on",
      "fscp.hello_timeout", "security.identity",
      "security.certificate_validation_method",
      "tap_adapter.enabled", "tap_adapter.ipv4_address_prefix_length",
      "tap_adapter.ipv6_address_prefix_length",
      "tap_adapter.arp_proxy_enabled",
      "tap_adapter.arp_proxy_fake_ethernet_address",
      "tap_adapter.dhcp_proxy_enabled",
      "tap_adapter.dhcp_server_ipv4_address_prefix_length",
      "tap_adapter.dhcp_server_ipv6_address_prefix_length",
      "switch.routing_method", "switch.relay_mode_enabled">>

AuthorityFiles == vm.m["security.authority_certificate_file"].value[1]

LoadableCertificate(f) ==
    f \in DOMAIN CredentialFiles /\ CredentialFiles[f] = "certificate"

FirstUnloadableAuthority ==
    CHOOSE i \in 1..Len(AuthorityFiles) :
        /\ ~LoadableCertificate(AuthorityFiles[i])
        /\ \A j \in 1..(i - 1) : LoadableCertificate(AuthorityFiles[j])

\* The failure is the unopenable authority certificate named by the error.
AuthorityOpenFailed ==
    /\ AssemblyFailed
    /\ Len(ex.what) = 2
    /\ ex.what[1] = "Unable to open the specified file: "
    /\ \E i \in 1..Len(AuthorityFiles) : AuthorityFiles[i] = ex.what[2]
    /\ \A k \in {"security.signature_certificate_file",
                 "security.signature_private_key_file",
                 "security.encryption_certificate_file",
                 "security.encryption_private_key_file"} :
          vm.m[k].value # <<ex.what[2]>>

C9_FailedAssemblyLeavesPrefix ==
    /\ AssemblyFailed =>
          /\ configuration[1]["switch.relay_mode_enabled"] = <<>>
          /\ configuration[1]["security.certificate_validation_callback"] = <<>>
          /\ \A i, j \in 1..Len(AssignmentOrder) :
                i < j /\ configuration[1][AssignmentOrder[j]] # <<>>
                    => configuration[1][AssignmentOrder[i]] # <<>>
    /\ AuthorityOpenFailed =>
          /\ ex.what[2] = AuthorityFiles[FirstUnloadableAuthority]
          /\ configuration[1]["security.certificate_authority_list"] =
                [i \in 1..(FirstUnloadableAuthority - 1) |->
                    [what |-> "trusted_certificate", file |-> AuthorityFiles[i]]]
          /\ configuration[1]["security.certificate_validation_method"] # <<>>
          /\ configuration[1]["tap_adapter.enabled"] = <<>>
    /\ pc = "done" /\ ConfigurationFailed =>
          configuration = <<>> /\ core_configuration = <<>>

C9_Witness ==
    /\ AuthorityOpenFailed
    /\ AuthorityFiles = <<"ca1.crt", "missing-ca.crt">>
    /\ ex.what[2] = "missing-ca.crt"
    /\ configuration[1]["security.certificate_authority_list"] =
          <<[what |-> "trusted_certificate", file |-> "ca1.crt"]>>

(***************************************************************************)
(* C10: the encryption certificate and key are loaded only if both         *)
(* options are present.  As stated: when exactly one of the two is         *)
(* supplied neither file is opened, no error comes from that option, and   *)
(* the identity has both encryption credentials absent.                    *)
(***************************************************************************)
EncryptionCertificateFile == vm.m["security.encryption_certificate_file"].value

EncryptionPrivateKeyFile == vm.m["security.encryption_private_key_file"].value

ExactlyOneEncryptionOption ==
    (EncryptionCertificateFile = <<>>) # (EncryptionPrivateKeyFile = <<>>)

LoadableAs(boxed, content) ==
    /\ boxed # <<>>
    /\ boxed[1] \in DOMAIN CredentialFiles
    /\ CredentialFiles[boxed[1]] = content

\* The credential files the identity statements open, given the options.
IdentityFiles ==
    LET sc == vm.m["security.signature_certificate_file"].value
        sk == vm.m["security.signature_private_key_file"].value
        ec == EncryptionCertificateFile
        ek == EncryptionPrivateKeyFile
    IN  sc \o
        (IF ~LoadableAs(sc, "certificate") THEN <<>>
         ELSE sk \o
              (IF ~LoadableAs(sk, "private_key") THEN <<>>
               ELSE ec \o
                    (IF ec # <<>> /\ ~LoadableAs(ec, "certificate") THEN <<>>
                     ELSE ek)))

C11_StopHookOnlyWhileEngineAlive ==
    /\ core \in {"absent", "constructed"} => stop_function = "0"
    /\ stop_function = "core.close" => parse_returned = <<TRUE>>
    /\ core = "destroyed" => stop_function = "0"

====
